---- MODULE Spec2Model ----
(***************************************************************************)
(* Model of the profiling and statistics engine of src/src/app/page.tsx:   *)
(* value coercion (toNumber, isNullValue), detectOrder, parseDateValue,    *)
(* buildHistogram, calculateCorrelation and analyzeData, of the charts     *)
(* derived from the analysis, and of the page's handlers.                  *)
(*                                                                         *)
(* Cell values.  A DataRow cell is string | number | null.  A cell is a    *)
(* record [t, n, s]: t is its JavaScript type (null, number, text), n   *)
(* the value of a number cell and s the characters of a text cell (a       *)
(* sequence of one-character strings).  Numbers are exact decimals with    *)
(* one fractional digit, held as an integer count of tenths (15 is 1.5);   *)
(* the arithmetic of the model is exact where the code's is IEEE double.   *)
(***************************************************************************)
EXTENDS Integers, Sequences, FiniteSets, TLC

VARIABLES rows, outcome, dateEngine, call, ret,
          fileName, analysis, isLoading, errorMessage, selectedFile,
          calls, inFlight, resetMark, shown, step

(* The page: its state hooks, the handleFile calls made so far (calls, in  *)
(* the order they reached parseFile) and those of them still awaiting it   *)
(* (inFlight); resetMark, shown and step record history: how many calls    *)
(* had been made at the last resetState, which call wrote the analysis on  *)
(* display, and which handler ran last.                                    *)
page == <<fileName, analysis, isLoading, errorMessage, selectedFile,
          calls, inFlight, resetMark, shown, step>>

vars == <<rows, outcome, dateEngine, call, ret, page>>

----------------------------------------------------------------------------
(* Cells *)

NullCell == [t |-> "null", n |-> 0, s |-> <<>>]

(* undefined: what row[column] yields when the row has no such key. *)
UndefinedCell == [t |-> "undefined", n |-> 0, s |-> <<>>]

IsNullish(value) == value.t \in {"null", "undefined"}

Num(x) == [t |-> "num", n |-> x, s |-> <<>>]

Text(chars) == [t |-> "text", n |-> 0, s |-> chars]

(* JavaScript numbers: finite (v in tenths), NaN, or an infinity (v its sign). *)
Fin(x) == [k |-> "fin", v |-> x]

NaN == [k |-> "nan", v |-> 0]

Inf(sign) == [k |-> "inf", v |-> sign]

(* The result of toNumber: number | null. *)
Some(x) == [ok |-> TRUE, v |-> x]

None == [ok |-> FALSE, v |-> 0]

----------------------------------------------------------------------------
(* Strings as the code's library calls see them *)

DigitChars == {"0", "1", "2", "3", "4", "5", "6", "7", "8", "9"}

DigitVal(c) ==
  CASE c = "0" -> 0 [] c = "1" -> 1 [] c = "2" -> 2 [] c = "3" -> 3
    [] c = "4" -> 4 [] c = "5" -> 5 [] c = "6" -> 6 [] c = "7" -> 7
    [] c = "8" -> 8 [] c = "9" -> 9

(* UTF-16 code unit of the characters the model's texts use. *)
CharCode(c) ==
  CASE c = " " -> 32 [] c = "," -> 44 [] c = "-" -> 45 [] c = "." -> 46
    [] c \in DigitChars -> 48 + DigitVal(c)
    [] c = "I" -> 73 [] c = "a" -> 97 [] c = "b" -> 98 [] c = "f" -> 102
    [] c = "i" -> 105 [] c = "n" -> 110 [] c = "t" -> 116 [] c = "y" -> 121

RECURSIVE TrimStart(_)
TrimStart(s) ==
  IF s # <<>> /\ Head(s) = " " THEN TrimStart(Tail(s)) ELSE s

RECURSIVE TrimEnd(_)
TrimEnd(s) ==
  IF s # <<>> /\ s[Len(s)] = " " THEN TrimEnd(SubSeq(s, 1, Len(s) - 1)) ELSE s

(* String.prototype.trim *)
Trim(s) == TrimEnd(TrimStart(s))

(* String.prototype.replace(/,/g, ".") *)
ReplaceCommas(s) == [i \in 1..Len(s) |-> IF s[i] = "," THEN "." ELSE s[i]]

AllDigits(s) == \A i \in 1..Len(s) : s[i] \in DigitChars

RECURSIVE DigitsValue(_)
DigitsValue(s) ==
  IF s = <<>> THEN 0 ELSE DigitsValue(SubSeq(s, 1, Len(s) - 1)) * 10 + DigitVal(s[Len(s)])

InfinityLit == <<"I", "n", "f", "i", "n", "i", "t", "y">>

(* StrUnsignedDecimalLiteral: Infinity | digits [. [digits]] | . digits,   *)
(* in tenths; fractional digits after the first are below the model's      *)
(* resolution and the input sets hold no text with more than one.          *)
UnsignedLiteral(s) ==
  LET dots == {i \in 1..Len(s) : s[i] = "."} IN
  IF s = InfinityLit THEN Inf(1)
  ELSE IF s = <<>> \/ Cardinality(dots) > 1 THEN NaN
  ELSE IF dots = {} THEN (IF AllDigits(s) THEN Fin(DigitsValue(s) * 10) ELSE NaN)
  ELSE LET d == CHOOSE i \in dots : TRUE
           int == SubSeq(s, 1, d - 1)
           frac == SubSeq(s, d + 1, Len(s))
       IN IF (int = <<>> /\ frac = <<>>) \/ ~AllDigits(int) \/ ~AllDigits(frac) THEN NaN
          ELSE Fin(DigitsValue(int) * 10 + (IF frac = <<>> THEN 0 ELSE DigitVal(frac[1])))

Negate(x) ==
  CASE x.k = "fin" -> Fin(0 - x.v) [] x.k = "inf" -> Inf(0 - x.v) [] OTHER -> x

(* Number(string): ECMAScript StringToNumber for decimal literals.  White  *)
(* space is trimmed and the empty string converts to 0.                    *)
StringToNumber(s) ==
  LET body == Trim(s) IN
  IF body = <<>> THEN Fin(0)
  ELSE IF Head(body) = "-" THEN Negate(UnsignedLiteral(Tail(body)))
  ELSE UnsignedLiteral(body)

(* ToNumber of a string | number operand. *)
ToNumeric(value) == IF value.t = "num" THEN Fin(value.n) ELSE StringToNumber(value.s)

RECURSIVE LexLess(_, _)
(* s < t for two strings: code-unit lexicographic order. *)
LexLess(s, t) ==
  IF t = <<>> THEN FALSE
  ELSE IF s = <<>> THEN TRUE
  ELSE IF CharCode(Head(s)) # CharCode(Head(t)) THEN CharCode(Head(s)) < CharCode(Head(t))
  ELSE LexLess(Tail(s), Tail(t))

NumLess(x, y) ==
  IF x.k = "nan" \/ y.k = "nan" THEN FALSE
  ELSE IF x.k = "inf" THEN x.v < 0 /\ ~(y.k = "inf" /\ y.v < 0)
  ELSE IF y.k = "inf" THEN y.v > 0
  ELSE x.v < y.v

(* a < b as JavaScript evaluates it for string | number operands: two      *)
(* strings compare by code units, any other pair after ToNumber, and a     *)
(* comparison with NaN is false.                                           *)
JsLess(a, b) ==
  IF a.t = "text" /\ b.t = "text" THEN LexLess(a.s, b.s)
  ELSE NumLess(ToNumeric(a), ToNumeric(b))

(* a > b *)
JsGreater(a, b) == JsLess(b, a)

----------------------------------------------------------------------------
(* Value coercion *)

(* toNumber: null for null/undefined, else the number itself or            *)
(* Number(String(value).replace(/,/g, ".")), kept only when finite.        *)
toNumber(value) ==
  IF IsNullish(value) THEN None
  ELSE LET numericValue == IF value.t = "num" THEN Fin(value.n)
                           ELSE StringToNumber(ReplaceCommas(value.s))
       IN IF numericValue.k = "fin" THEN Some(numericValue.v) ELSE None

(* isNullValue: null/undefined, or a text whose trim() is "".              *)
isNullValue(value) ==
  IF IsNullish(value) THEN TRUE
  ELSE IF value.t = "num" THEN FALSE
  ELSE Trim(value.s) = <<>>

----------------------------------------------------------------------------
(* detectOrder *)

Ascendente == "ascendente"

Descendente == "descendente"

SinOrden == "sin orden"

(* detectOrder: ascending stays true while no element is < its             *)
(* predecessor, descending while none is > its predecessor.                *)
detectOrder(values) ==
  IF Len(values) < 2 THEN SinOrden
  ELSE LET ascending == \A index \in 2..Len(values) : ~JsLess(values[index], values[index - 1])
           descending == \A index \in 2..Len(values) : ~JsGreater(values[index], values[index - 1])
       IN IF ascending THEN Ascendente
          ELSE IF descending THEN Descendente
          ELSE SinOrden

----------------------------------------------------------------------------
(* parseDateValue *)

(* A parsed Date: ok is false for null (no date or an Invalid Date); a     *)
(* valid date is located by its day number since 1970-01-01 and the        *)
(* milliseconds within that day.                                           *)
NoDate == [ok |-> FALSE, day |-> 0, ms |-> 0]

DateAt(day, ms) == [ok |-> TRUE, day |-> day, ms |-> ms]

MsPerDay == 86400000

IsLeapYear(y) == (y % 4 = 0 /\ y % 100 # 0) \/ y % 400 = 0

DaysInMonth(y, m) ==
  IF m = 2 THEN (IF IsLeapYear(y) THEN 29 ELSE 28)
  ELSE IF m \in {4, 6, 9, 11} THEN 30 ELSE 31

RECURSIVE DaysBeforeMonth(_, _)
DaysBeforeMonth(y, m) ==
  IF m = 1 THEN 0 ELSE DaysBeforeMonth(y, m - 1) + DaysInMonth(y, m - 1)

(* Days from 1970-01-01 to January 1st of year y. *)
DaysBeforeYear(y) ==
  365 * (y - 1970) + ((y - 1969) \div 4) - ((y - 1901) \div 100) + ((y - 1601) \div 400)

(* The ECMAScript date-only formats YYYY, YYYY-MM and YYYY-MM-DD (UTC).    *)
IsIsoDateText(s) ==
  /\ Len(s) \in {4, 7, 10}
  /\ AllDigits(SubSeq(s, 1, 4))
  /\ Len(s) >= 7 => (s[5] = "-" /\ AllDigits(SubSeq(s, 6, 7)))
  /\ Len(s) = 10 => (s[8] = "-" /\ AllDigits(SubSeq(s, 9, 10)))

IsoDate(s) ==
  LET y == DigitsValue(SubSeq(s, 1, 4))
      m == IF Len(s) >= 7 THEN DigitsValue(SubSeq(s, 6, 7)) ELSE 1
      d == IF Len(s) = 10 THEN DigitsValue(SubSeq(s, 9, 10)) ELSE 1
  IN IF m \in 1..12 /\ d \in 1..DaysInMonth(y, m)
     THEN DateAt(DaysBeforeYear(y) + DaysBeforeMonth(y, m) + d - 1, 0)
     ELSE NoDate

(* Texts every engine's Date.parse rejects: white space only, or letters only. *)
IsUnparseableText(s) ==
  \/ Trim(s) = <<>>
  \/ \A i \in 1..Len(s) : s[i] \in {"a", "b"}

(* Texts outside the ECMAScript formats whose parse is left to the engine  *)
(* (Date.parse falls back to implementation-specific heuristics).          *)
IsEngineDateText(s) == ~IsIsoDateText(s) /\ ~IsUnparseableText(s)

(* new Date(string): the date-only ISO formats are fixed by the language,  *)
(* the rest is what the running engine (dateEngine) makes of the text.     *)
DateParse(s) ==
  IF IsIsoDateText(s) THEN IsoDate(s)
  ELSE IF IsUnparseableText(s) THEN NoDate
  ELSE dateEngine[s]

(* new Date(number): the time value in ms, truncated to an integer; every  *)
(* number of the model is finite and far inside the +-8.64e15 ms range.    *)
DateOfNumber(n) ==
  LET t == IF n >= 0 THEN n \div 10 ELSE 0 - ((0 - n) \div 10)
  IN DateAt(t \div MsPerDay, t % MsPerDay)

(* parseDateValue: null for null, undefined and "", else new Date(value)   *)
(* unless its time is NaN.                                                 *)
parseDateValue(value) ==
  IF IsNullish(value) \/ (value.t = "text" /\ value.s = <<>>) THEN NoDate
  ELSE IF value.t = "num" THEN DateOfNumber(value.n)
  ELSE DateParse(value.s)

----------------------------------------------------------------------------
(* analyzeData *)

RECURSIVE Sum(_)
Sum(seq) == IF seq = <<>> THEN 0 ELSE Head(seq) + Sum(Tail(seq))

(* A DataRow is the sequence of its own enumerable entries, in the order   *)
(* Object.keys lists them; no key occurs twice in a row.                   *)
Entry(key, value) == [key |-> key, value |-> value]

ObjectKeys(row) == [i \in 1..Len(row) |-> row[i].key]

HasKey(row, column) == \E i \in 1..Len(row) : row[i].key = column

(* row[column] *)
Get(row, column) ==
  IF HasKey(row, column)
  THEN row[CHOOSE i \in 1..Len(row) : row[i].key = column].value
  ELSE UndefinedCell

Range(seq) == {seq[i] : i \in 1..Len(seq)}

RECURSIVE FlatKeys(_)
(* rows.flatMap((row) => Object.keys(row)) *)
FlatKeys(rs) ==
  IF rs = <<>> THEN <<>> ELSE ObjectKeys(Head(rs)) \o FlatKeys(Tail(rs))

RECURSIVE Dedup(_)
(* Array.from(new Set(keys)): a Set keeps the first insertion of each value. *)
Dedup(keys) ==
  IF keys = <<>> THEN <<>>
  ELSE LET init == Dedup(SubSeq(keys, 1, Len(keys) - 1))
           last == keys[Len(keys)]
       IN IF last \in Range(init) THEN init ELSE Append(init, last)

(* Mutant of Columns: the keys of the first row only. *)
ColumnsOfFirstRow(rs) == IF rs = <<>> THEN <<>> ELSE ObjectKeys(Head(rs))

Columns(rs) == Dedup(FlatKeys(rs))

Slice(seq, from, to) == SubSeq(seq, from + 1, IF to < Len(seq) THEN to ELSE Len(seq))

(* Mutant of ColumnValues: rows without the key are skipped. *)
ColumnValuesPresentOnly(rs, column) ==
  LET present == SelectSeq(rs, LAMBDA row : HasKey(row, column))
  IN [i \in 1..Len(present) |-> Get(present[i], column)]

(* rows.map((row) => row[column] ?? null) *)
ColumnValues(rs, column) ==
  [i \in 1..Len(rs) |->
     LET value == Get(rs[i], column) IN IF IsNullish(value) THEN NullCell ELSE value]

(* values.map(toNumber).filter((value) => value !== null) *)
NumericValues(values) ==
  LET kept == SelectSeq(values, LAMBDA value : toNumber(value).ok)
  IN [i \in 1..Len(kept) |-> toNumber(kept[i]).v]

NonNullValues(values) == SelectSeq(values, LAMBDA value : ~isNullValue(value))

(* nonNullValues.map((value) => typeof value === "number" ? value : String(value)) *)
ComparableValues(nonNullValues) ==
  [i \in 1..Len(nonNullValues) |->
     IF nonNullValues[i].t = "num" THEN nonNullValues[i] ELSE Text(nonNullValues[i].s)]

Numerico == "numérico"

Texto == "texto"

Mixto == "mixto"

Vacio == "vacío"

(* Mutant of DataTypeOf: one coercible value makes the column numeric. *)
DataTypeOfAnyNumeric(nonNullValues) ==
  IF Len(nonNullValues) > 0
  THEN LET numericCount == Len(SelectSeq(nonNullValues, LAMBDA value : toNumber(value).ok))
       IN IF numericCount > 0 THEN Numerico ELSE Texto
  ELSE Vacio

DataTypeOf(nonNullValues) ==
  IF Len(nonNullValues) > 0
  THEN LET numericCount == Len(SelectSeq(nonNullValues, LAMBDA value : toNumber(value).ok))
       IN IF numericCount = Len(nonNullValues) THEN Numerico
          ELSE IF numericCount = 0 THEN Texto
          ELSE Mixto
  ELSE Vacio

(* One element of columnStats. *)
ColumnStatsOf(rs, column) ==
  LET values == ColumnValues(rs, column)
      nullCount == Len(SelectSeq(values, isNullValue))
      numericValues == NumericValues(values)
      positiveCount == Len(SelectSeq(numericValues, LAMBDA value : value > 0))
      nonNullValues == NonNullValues(values)
      ordered == detectOrder(ComparableValues(nonNullValues))
  IN [name |-> column,
      totalRows |-> Len(rs),
      nullCount |-> nullCount,
      positiveCount |-> positiveCount,
      dataType |-> DataTypeOf(nonNullValues),
      ordered |-> ordered]

(* Mutant of NumericColumnsOf: mixed columns are listed too. *)
NumericColumnsWithMixed(columnStats) ==
  LET kept == SelectSeq(columnStats, LAMBDA column : column.dataType \in {Numerico, Mixto})
  IN [i \in 1..Len(kept) |-> kept[i].name]

NumericColumnsOf(columnStats) ==
  LET kept == SelectSeq(columnStats, LAMBDA column : column.dataType = Numerico)
  IN [i \in 1..Len(kept) |-> kept[i].name]

DateSample == 15

DateMatchesNeeded == 5

Min(a, b) == IF a < b THEN a ELSE b

(* Mutant of IsDateColumn: every non-null value is sampled. *)
IsDateColumnNoSample(rs, column) ==
  LET nonNullValues == NonNullValues([i \in 1..Len(rs) |-> Get(rs[i], column)])
  IN IF Len(nonNullValues) = 0 THEN FALSE
     ELSE Len(SelectSeq(nonNullValues, LAMBDA value : parseDateValue(value).ok))
            >= Min(DateMatchesNeeded, Len(nonNullValues))

(* The predicate of the dateColumns filter. *)
IsDateColumn(rs, column) ==
  LET nonNullValues == NonNullValues([i \in 1..Len(rs) |-> Get(rs[i], column)])
  IN IF Len(nonNullValues) = 0 THEN FALSE
     ELSE LET dateMatches == Len(SelectSeq(Slice(nonNullValues, 0, DateSample),
                                   LAMBDA value : parseDateValue(value).ok))
          IN dateMatches >= Min(DateMatchesNeeded, Len(nonNullValues))

EmptyFileMessage == "El archivo está vacío o no tiene filas válidas."

Throw(message) == [kind |-> "throw", error |-> message]

Return(value) == [kind |-> "return", value |-> value]

(* Mutant of ColumnsWithNullsOf: the nulls are counted, not the columns. *)
ColumnsWithNullsCountsCells(columnStats) ==
  Sum([i \in 1..Len(columnStats) |-> columnStats[i].nullCount])

(* columnStats.filter((column) => column.nullCount > 0).length *)
ColumnsWithNullsOf(columnStats) ==
  Len(SelectSeq(columnStats, LAMBDA column : column.nullCount > 0))

(* analyzeData past its emptiness check. *)
AnalysisOf(rs) ==
  LET columns == Columns(rs)
      columnStats == [i \in 1..Len(columns) |-> ColumnStatsOf(rs, columns[i])]
      numericColumns == NumericColumnsOf(columnStats)
      dateColumns == SelectSeq(columns, LAMBDA column : IsDateColumn(rs, column))
      columnsWithNulls == ColumnsWithNullsOf(columnStats)
      totalPositiveValues == Sum([i \in 1..Len(columnStats) |-> columnStats[i].positiveCount])
      firstColumnValues ==
        ComparableValues(NonNullValues([i \in 1..Len(rs) |->
          IF columns = <<>> THEN UndefinedCell ELSE Get(rs[i], columns[1])]))
      orderedByFirstColumn == detectOrder(firstColumnValues) # SinOrden
  IN [totalRows |-> Len(rs),
      totalColumns |-> Len(columns),
      hasNulls |-> columnsWithNulls > 0,
      orderedByFirstColumn |-> orderedByFirstColumn,
      totalPositiveValues |-> totalPositiveValues,
      columnsWithNulls |-> columnsWithNulls,
      columnStats |-> columnStats,
      numericColumns |-> numericColumns,
      dateColumns |-> dateColumns,
      rawRows |-> rs]

(* Mutant of analyzeData: a dataset whose rows have no keys is rejected too. *)
analyzeDataRejectsNoColumns(rs) ==
  IF Len(rs) = 0 \/ Columns(rs) = <<>> THEN Throw(EmptyFileMessage) ELSE Return(AnalysisOf(rs))

analyzeData(rs) ==
  IF Len(rs) = 0 THEN Throw(EmptyFileMessage) ELSE Return(AnalysisOf(rs))

----------------------------------------------------------------------------
(* buildHistogram *)

RECURSIVE MinOf(_)
(* Math.min(...values), values not empty *)
MinOf(values) ==
  IF Len(values) = 1 THEN values[1]
  ELSE LET rest == MinOf(Tail(values)) IN IF Head(values) < rest THEN Head(values) ELSE rest

RECURSIVE MaxOf(_)
(* Math.max(...values), values not empty *)
MaxOf(values) ==
  IF Len(values) = 1 THEN values[1]
  ELSE LET rest == MaxOf(Tail(values)) IN IF Head(values) > rest THEN Head(values) ELSE rest

(* Math.floor(a / b) for b > 0 *)
FloorDiv(a, b) == a \div b

(* x.toFixed(2) of the exact quotient num / den of two counts of tenths    *)
(* (den > 0), as a count of hundredths: the nearest, ties away from zero.  *)
ToFixed2(num, den) ==
  LET mag == IF num < 0 THEN 0 - num ELSE num
      cents == (2 * 10 * mag + den) \div (2 * den)
  IN IF num < 0 THEN 0 - cents ELSE cents

(* The label `${start} - ${end}` of a bucket, as its two printed numbers   *)
(* in hundredths; the label `${min}` of a single bucket is the number.     *)
RangeLabel(start, end) == [kind |-> "range", start |-> start, end |-> end]

ValueLabel(min) == [kind |-> "value", start |-> min, end |-> min]

DefaultBins == 8

(* Mutant of BinIndex: the index is not capped at the last bucket. *)
BinIndexUncapped(value, min, max, bins) ==
  FloorDiv((value - min) * bins, max - min)

(* The bucket index of one value in the forEach loop. *)
BinIndex(value, min, max, bins) ==
  Min(bins - 1, FloorDiv((value - min) * bins, max - min))

(* buildHistogram(values, bins): step = (max - min) / bins is kept exact,  *)
(* so (value - min) / step is (value - min) * bins / (max - min) and       *)
(* min + step * index is (min * bins + (max - min) * index) / bins.        *)
(* Buckets are numbered from 1 here and from 0 in the code.                *)
buildHistogram(values, bins) ==
  IF Len(values) = 0 THEN <<>>
  ELSE LET min == MinOf(values)
           max == MaxOf(values)
       IN IF min = max THEN <<[bin |-> ValueLabel(min), count |-> Len(values)]>>
          ELSE [index \in 1..bins |->
                  [bin |-> RangeLabel(ToFixed2(min * bins + (max - min) * (index - 1), bins),
                                      ToFixed2(min * bins + (max - min) * index, bins)),
                   count |-> Cardinality({i \in 1..Len(values) :
                               BinIndex(values[i], min, max, bins) = index - 1})]]

----------------------------------------------------------------------------
(* calculateCorrelation *)

RECURSIVE Gcd(_, _)
Gcd(a, b) == IF b = 0 THEN a ELSE Gcd(b, a % b)

(* A correlation value r, exact: its sign and r * r as the reduced         *)
(* fraction p / q.  The number 0 is [sign 0, p 0, q 1].                    *)
Zero == [sign |-> 0, p |-> 0, q |-> 1]

(* 0 / 0 *)
NotANumber == [sign |-> 0, p |-> 0, q |-> 0]

(* numerator / Math.sqrt(radicand), radicand > 0 *)
Quotient(numerator, radicand) ==
  IF numerator = 0 THEN Zero
  ELSE LET g == Gcd(numerator * numerator, radicand)
       IN [sign |-> IF numerator < 0 THEN 0 - 1 ELSE 1,
           p |-> (numerator * numerator) \div g,
           q |-> radicand \div g]

(* The loop's sums with every difference scaled by n (n * value - sum is   *)
(* n times value - mean), which leaves numerator / denominator unchanged.  *)
ScaledDiffs(values) == [i \in 1..Len(values) |-> Len(values) * values[i] - Sum(values)]

(* Mutant of calculateCorrelation: a zero denominator is divided by. *)
calculateCorrelationNoZeroGuard(xValues, yValues) ==
  IF Len(xValues) = 0 \/ Len(yValues) = 0 \/ Len(xValues) # Len(yValues) THEN Zero
  ELSE LET xDiff == ScaledDiffs(xValues)
           yDiff == ScaledDiffs(yValues)
           numerator == Sum([i \in 1..Len(xValues) |-> xDiff[i] * yDiff[i]])
           denominatorX == Sum([i \in 1..Len(xValues) |-> xDiff[i] * xDiff[i]])
           denominatorY == Sum([i \in 1..Len(xValues) |-> yDiff[i] * yDiff[i]])
       IN IF denominatorX * denominatorY = 0 THEN NotANumber
          ELSE Quotient(numerator, denominatorX * denominatorY)

calculateCorrelation(xValues, yValues) ==
  IF Len(xValues) = 0 \/ Len(yValues) = 0 \/ Len(xValues) # Len(yValues) THEN Zero
  ELSE LET xDiff == ScaledDiffs(xValues)
           yDiff == ScaledDiffs(yValues)
           numerator == Sum([i \in 1..Len(xValues) |-> xDiff[i] * yDiff[i]])
           denominatorX == Sum([i \in 1..Len(xValues) |-> xDiff[i] * xDiff[i]])
           denominatorY == Sum([i \in 1..Len(xValues) |-> yDiff[i] * yDiff[i]])
       IN IF denominatorX * denominatorY = 0 THEN Zero
          ELSE Quotient(numerator, denominatorX * denominatorY)

----------------------------------------------------------------------------
(* The charts derived from the analysis on each render *)
(* (analysisResult is the analysis state the memo reads)                   *)

(* rawRows.map((row) => toNumber(row[column])).filter(non-null) *)
ChartValues(analysisResult, column) ==
  NumericValues([r \in 1..Len(analysisResult.rawRows) |-> Get(analysisResult.rawRows[r], column)])

correlationMatrix(analysisResult) ==
  IF analysisResult = NullCell THEN <<>>
  ELSE LET columns == analysisResult.numericColumns
       IN [i \in 1..Len(columns) |->
            LET columnValues == ChartValues(analysisResult, columns[i])
            IN [j \in 1..Len(columns) |->
                 LET otherValues == ChartValues(analysisResult, columns[j])
                     minLength == Min(Len(columnValues), Len(otherValues))
                 IN calculateCorrelation(Slice(columnValues, 0, minLength),
                                         Slice(otherValues, 0, minLength))]]

(* a.getTime() - b.getTime(), up to a positive factor: the days decide,    *)
(* and within one day the milliseconds (fewer than MsPerDay) do.           *)
TimeDifference(a, b) == IF a.day # b.day THEN a.day - b.day ELSE a.ms - b.ms

(* The printed date names the calendar day and drops the time of day (the  *)
(* viewer's time zone is taken as UTC).                                    *)
toLocaleDateString(date) == date.day

(* The rows mapped to { fecha, valor } items, the null items filtered out. *)
SeriesItems(analysisResult, dateColumn, numericColumn) ==
  LET item(row) == [fecha |-> parseDateValue(Get(row, dateColumn)),
                    valor |-> toNumber(Get(row, numericColumn))]
      kept == SelectSeq(analysisResult.rawRows,
                        LAMBDA row : item(row).fecha.ok /\ item(row).valor.ok)
  IN [k \in 1..Len(kept) |-> [fecha |-> item(kept[k]).fecha, valor |-> item(kept[k]).valor.v]]

(* Mutant of SortByTime: the items stay in row order. *)
SortByTimeSkipped(items) == items

RECURSIVE SortByTime(_)
(* sort((a, b) => a.fecha.getTime() - b.fecha.getTime()), which is stable: *)
(* each item goes after every item that is not later than it.              *)
SortByTime(items) ==
  IF items = <<>> THEN <<>>
  ELSE LET sorted == SortByTime(SubSeq(items, 1, Len(items) - 1))
           last == items[Len(items)]
       IN SelectSeq(sorted, LAMBDA a : TimeDifference(a.fecha, last.fecha) <= 0)
          \o <<last>>
          \o SelectSeq(sorted, LAMBDA a : TimeDifference(a.fecha, last.fecha) > 0)

timeSeriesData(analysisResult) ==
  IF analysisResult = NullCell THEN NullCell
  ELSE IF Len(analysisResult.dateColumns) = 0 \/ Len(analysisResult.numericColumns) = 0
  THEN NullCell
  ELSE LET series == SortByTime(SeriesItems(analysisResult, analysisResult.dateColumns[1],
                                            analysisResult.numericColumns[1]))
       IN [k \in 1..Len(series) |->
            [fecha |-> toLocaleDateString(series[k].fecha), valor |-> series[k].valor]]

(* if (pairs.length >= 4) return pairs *)
MaxScatterPairs == 4

(* The { x, y } points of the rows where both columns give a number. *)
ScatterPoints(analysisResult, xColumn, yColumn) ==
  LET point(row) == [x |-> toNumber(Get(row, xColumn)), y |-> toNumber(Get(row, yColumn))]
      kept == SelectSeq(analysisResult.rawRows, LAMBDA row : point(row).x.ok /\ point(row).y.ok)
  IN [k \in 1..Len(kept) |-> [x |-> point(kept[k]).x.v, y |-> point(kept[k]).y.v]]

RECURSIVE ScatterLoopNoLimit(_, _, _, _)
(* Mutant of ScatterLoop: the loops run to the end. *)
ScatterLoopNoLimit(analysisResult, i, j, pairs) ==
  LET columns == analysisResult.numericColumns
  IN IF i > Len(columns) THEN pairs
     ELSE IF j > Len(columns) THEN ScatterLoopNoLimit(analysisResult, i + 1, i + 2, pairs)
     ELSE LET points == ScatterPoints(analysisResult, columns[i], columns[j])
              pushed == IF Len(points) > 0
                        THEN Append(pairs, [x |-> columns[i], y |-> columns[j], points |-> points])
                        ELSE pairs
          IN ScatterLoopNoLimit(analysisResult, i, j + 1, pushed)

RECURSIVE ScatterLoop(_, _, _, _)
(* The two loops from the pair (i, j) on, columns counted from 1. *)
ScatterLoop(analysisResult, i, j, pairs) ==
  LET columns == analysisResult.numericColumns
  IN IF i > Len(columns) THEN pairs
     ELSE IF j > Len(columns) THEN ScatterLoop(analysisResult, i + 1, i + 2, pairs)
     ELSE LET points == ScatterPoints(analysisResult, columns[i], columns[j])
              pushed == IF Len(points) > 0
                        THEN Append(pairs, [x |-> columns[i], y |-> columns[j], points |-> points])
                        ELSE pairs
          IN IF Len(pushed) >= MaxScatterPairs THEN pushed
             ELSE ScatterLoop(analysisResult, i, j + 1, pushed)

scatterPairs(analysisResult) ==
  IF analysisResult = NullCell THEN <<>> ELSE ScatterLoop(analysisResult, 1, 2, <<>>)

----------------------------------------------------------------------------
(* The page as mounted *)

(* A message of the page's state, null being NullCell (a file name is a    *)
(* Text, as in a cell).                                                    *)
Message(text) == [t |-> "string", text |-> text]

NoShown == [id |-> 0, superseded |-> FALSE, afterReset |-> FALSE]

NoStep == [handler |-> "none", call |-> "none"]

(* The initial values of the state hooks; no call has been made. *)
Mounted ==
  /\ fileName = NullCell
  /\ analysis = NullCell
  /\ isLoading = FALSE
  /\ errorMessage = NullCell
  /\ selectedFile = NullCell
  /\ calls = <<>>
  /\ inFlight = {}
  /\ resetMark = 0
  /\ shown = NoShown
  /\ step = NoStep

----------------------------------------------------------------------------
(* Specification of analyzeData over every small dataset: the rows are     *)
(* drawn at the start, the engine that will parse dates is fixed, and the  *)
(* one step is the call.                                                   *)

Pending == [kind |-> "pending"]

NoCall == [fn |-> "none"]

MaxRows == 2

Keys == {"a", "b"}

(* null, the number 0, a blank text, a word, and a decimal-comma number. *)
Cells == {NullCell, Num(0), Text(<<" ">>), Text(<<"a">>), Text(<<"1", ",", "5">>)}

SeqsUpTo(S, n) == UNION {[1..m -> S] : m \in 0..n}

RowsOver(keys, cells) ==
  {row \in SeqsUpTo([key : keys, value : cells], Cardinality(keys)) :
     \A i, j \in 1..Len(row) : i # j => row[i].key # row[j].key}

Datasets == SeqsUpTo(RowsOver(Keys, Cells), MaxRows)

TextsOf(cells) == {c.s : c \in {x \in cells : x.t = "text"}}

(* What an engine may make of a text outside the ECMAScript date formats:  *)
(* an Invalid Date, or some date (here 2001-01-01).                        *)
EngineDates == {NoDate, DateAt(11323, 0)}

EnginesFor(cells) == [{s \in TextsOf(cells) : IsEngineDateText(s)} -> EngineDates]

Init ==
  /\ rows \in Datasets
  /\ dateEngine \in EnginesFor(Cells)
  /\ outcome = Pending
  /\ call = NoCall
  /\ ret = NoCall
  /\ Mounted

Analyze ==
  /\ outcome = Pending
  /\ outcome' = analyzeData(rows)
  /\ UNCHANGED <<rows, dateEngine, call, ret, page>>

Next == Analyze

Spec == Init /\ [][Next]_vars

----------------------------------------------------------------------------
(* Properties of analyzeData *)

Returned == outcome.kind = "return"

Result == outcome.value

AllKeys(rs) == UNION {Range(ObjectKeys(rs[i])) : i \in 1..Len(rs)}

(* The raw values of a column: what each row holds under the key. *)
RawValues(rs, column) == [i \in 1..Len(rs) |-> Get(rs[i], column)]

NonNullRaw(rs, column) == {i \in 1..Len(rs) : ~isNullValue(Get(rs[i], column))}

NullRaw(rs, column) == {i \in 1..Len(rs) : isNullValue(Get(rs[i], column))}

Coercible(rs, column) == {i \in NonNullRaw(rs, column) : toNumber(Get(rs[i], column)).ok}

(* C1: in every profile of a returned analysis, nullCount plus the number  *)
(* of raw values of the column that are not null equals totalRows, which   *)
(* equals the number of rows; a row without the key counts as a null.      *)
C1_NullCountPartition ==
  Returned =>
    \A i \in 1..Len(Result.columnStats) :
      LET p == Result.columnStats[i] IN
      /\ p.nullCount + Cardinality(NonNullRaw(rows, p.name)) = p.totalRows
      /\ p.totalRows = Len(rows)
      /\ p.nullCount >= Cardinality({r \in 1..Len(rows) : ~HasKey(rows[r], p.name)})

(* A profiled column that one row omits, one row holds as a blank text and *)
(* no row holds a value for: both rows are counted as nulls.               *)
C1_Witness ==
  /\ Returned
  /\ \E i \in 1..Len(Result.columnStats) :
       LET p == Result.columnStats[i] IN
       /\ \E r \in 1..Len(rows) : ~HasKey(rows[r], p.name)
       /\ \E r \in 1..Len(rows) : Get(rows[r], p.name).t = "text" /\ r \in NullRaw(rows, p.name)
       /\ p.nullCount = 2

(* C2: dataType is decided by the non-null raw values alone: vacío iff     *)
(* there are none, numérico iff there are some and all coerce under        *)
(* toNumber, texto iff there are some and none coerces, mixto iff some but *)
(* not all coerce; exactly one of the four.                                *)
C2_DataTypeRule ==
  Returned =>
    \A i \in 1..Len(Result.columnStats) :
      LET p == Result.columnStats[i]
          nonNull == NonNullRaw(rows, p.name)
          coerce == Coercible(rows, p.name)
      IN /\ p.dataType \in {Vacio, Numerico, Texto, Mixto}
         /\ p.dataType = Vacio <=> nonNull = {}
         /\ p.dataType = Numerico <=> (nonNull # {} /\ coerce = nonNull)
         /\ p.dataType = Texto <=> (nonNull # {} /\ coerce = {})
         /\ p.dataType = Mixto <=> (coerce # {} /\ coerce # nonNull)

(* A mixed column: a decimal-comma text that coerces beside a word that    *)
(* does not.                                                               *)
C2_Witness ==
  /\ Returned
  /\ \E i \in 1..Len(Result.columnStats) :
       LET p == Result.columnStats[i] IN
       /\ p.dataType = Mixto
       /\ \E r \in Coercible(rows, p.name) : Get(rows[r], p.name).t = "text"

(* C3: analyzeData throws iff the dataset has no rows, and what it throws  *)
(* is the empty-file error; every other dataset returns a result.          *)
C3_ThrowsIffEmpty ==
  outcome # Pending =>
    /\ outcome.kind = "throw" <=> Len(rows) = 0
    /\ outcome.kind = "return" <=> Len(rows) > 0
    /\ outcome.kind = "throw" => outcome.error = EmptyFileMessage

(* A dataset of rows that have no key at all is analysed without error.    *)
C3_Witness ==
  /\ Returned
  /\ Len(rows) = 2
  /\ AllKeys(rows) = {}
  /\ Result.totalColumns = 0

PositionIn(seq, x) == CHOOSE i \in 1..Len(seq) : seq[i] = x

StatsNames == [i \in 1..Len(Result.columnStats) |-> Result.columnStats[i].name]

(* C4: numericColumns holds exactly the names of the profiles whose        *)
(* dataType is numérico, each once, in the order of columnStats.           *)
C4_NumericColumnsExact ==
  Returned =>
    LET nc == Result.numericColumns IN
    /\ Range(nc) = {Result.columnStats[i].name :
                      i \in {j \in 1..Len(Result.columnStats) :
                               Result.columnStats[j].dataType = Numerico}}
    /\ \A i, j \in 1..Len(nc) : i < j =>
         /\ nc[i] # nc[j]
         /\ PositionIn(StatsNames, nc[i]) < PositionIn(StatsNames, nc[j])

(* Two numeric columns discovered as b then a and listed in that order,    *)
(* one of them numeric although it holds a null.                           *)
C4_Witness ==
  /\ Returned
  /\ Result.numericColumns = <<"b", "a">>
  /\ \E i \in 1..Len(Result.columnStats) : Result.columnStats[i].nullCount > 0

FirstPosition(seq, x) == CHOOSE i \in 1..Len(seq) : seq[i] = x /\ \A j \in 1..(i - 1) : seq[j] # x

(* C6: the columns are the distinct keys of all rows in first-appearance   *)
(* order (rows in order, each row's keys in order); totalColumns is the    *)
(* number of distinct keys and columnStats has one profile per column in   *)
(* that order.                                                             *)
C6_ColumnsFirstAppearance ==
  Returned =>
    LET flat == FlatKeys(rows) IN
    /\ Range(StatsNames) = AllKeys(rows)
    /\ Result.totalColumns = Cardinality(AllKeys(rows))
    /\ Len(Result.columnStats) = Result.totalColumns
    /\ \A i, j \in 1..Len(StatsNames) : i < j =>
         FirstPosition(flat, StatsNames[i]) < FirstPosition(flat, StatsNames[j])

(* The second row brings a new key ahead of one already seen: the column   *)
(* list keeps the first row's key first.                                   *)
C6_Witness ==
  /\ Returned
  /\ Len(rows) = 2
  /\ ObjectKeys(rows[1]) = <<"b">>
  /\ ObjectKeys(rows[2]) = <<"a", "b">>
  /\ StatsNames = <<"b", "a">>

(* C11: the summary fields agree with columnStats: columnsWithNulls is    *)
(* the number of profiles with nullCount > 0, hasNulls holds iff it is     *)
(* positive, totalPositiveValues is the sum of positiveCount, and          *)
(* orderedByFirstColumn holds iff the first column's profile is ordered.   *)
C11_SummaryAgrees ==
  Returned =>
    LET stats == Result.columnStats IN
    /\ Result.columnsWithNulls = Cardinality({i \in 1..Len(stats) : stats[i].nullCount > 0})
    /\ Result.hasNulls <=> Result.columnsWithNulls > 0
    /\ Result.totalPositiveValues = Sum([i \in 1..Len(stats) |-> stats[i].positiveCount])
    /\ Result.orderedByFirstColumn <=> (Len(stats) > 0 /\ stats[1].ordered # SinOrden)

(* Two columns: the first ordered with two positive values, the second     *)
(* with two nulls; one column with nulls is reported, not two nulls.       *)
C11_Witness ==
  /\ Returned
  /\ Len(Result.columnStats) = 2
  /\ Result.columnStats[2].nullCount = 2
  /\ Result.columnsWithNulls = 1
  /\ Result.hasNulls
  /\ Result.totalPositiveValues = 2
  /\ Result.orderedByFirstColumn

(* C10 as claimed: every raw value that isNullValue classifies as null     *)
(* coerces to None under toNumber, so that in every column nullCount plus  *)
(* the number of numeric values is at most totalRows.                      *)
C10_NullsNeverNumeric ==
  Returned =>
    \A i \in 1..Len(Result.columnStats) :
      LET p == Result.columnStats[i] IN
      /\ \A r \in NullRaw(rows, p.name) : ~toNumber(Get(rows[r], p.name)).ok
      /\ p.nullCount + Len(NumericValues(ColumnValues(rows, p.name))) <= p.totalRows

(* The values of a column's cells that are neither null nor non-numeric,   *)
(* in row order.                                                           *)
NumericCellsOf(rs, column) ==
  LET kept == SelectSeq(RawValues(rs, column),
                        LAMBDA value : ~isNullValue(value) /\ toNumber(value).ok)
  IN [k \in 1..Len(kept) |-> toNumber(kept[k]).v]

(* The values toNumber gives for a column's cells, in row order. *)
CoercedCellsOf(rs, column) ==
  LET kept == SelectSeq(RawValues(rs, column), LAMBDA value : toNumber(value).ok)
  IN [k \in 1..Len(kept) |-> toNumber(kept[k]).v]

(* C12: the correlation matrix is square over numericColumns, and entry    *)
(* [i][j] is calculateCorrelation of the first m numeric values of column  *)
(* i and of column j, each column's values extracted on its own by         *)
(* dropping its null and non-numeric cells, m the shorter of the two       *)
(* lengths, so that the two arguments always have the same length.         *)
C12_MatrixOfNumericCells ==
  Returned =>
    LET matrix == correlationMatrix(Result)
        columns == Result.numericColumns
    IN /\ Len(matrix) = Len(columns)
       /\ \A i \in 1..Len(columns) :
            /\ Len(matrix[i]) = Len(columns)
            /\ \A j \in 1..Len(columns) :
                 LET xs == NumericCellsOf(rows, columns[i])
                     ys == NumericCellsOf(rows, columns[j])
                     m == Min(Len(xs), Len(ys))
                 IN /\ Len(SubSeq(xs, 1, m)) = Len(SubSeq(ys, 1, m))
                    /\ matrix[i][j] = calculateCorrelation(SubSeq(xs, 1, m), SubSeq(ys, 1, m))

(* The same with the values taken as toNumber gives them, a blank text     *)
(* counting as the number 0: this is what the matrix computes.             *)
MatrixOfCoercedCells ==
  Returned =>
    LET matrix == correlationMatrix(Result)
        columns == Result.numericColumns
    IN /\ Len(matrix) = Len(columns)
       /\ \A i \in 1..Len(columns) :
            /\ Len(matrix[i]) = Len(columns)
            /\ \A j \in 1..Len(columns) :
                 LET xs == CoercedCellsOf(rows, columns[i])
                     ys == CoercedCellsOf(rows, columns[j])
                     m == Min(Len(xs), Len(ys))
                 IN matrix[i][j] = calculateCorrelation(SubSeq(xs, 1, m), SubSeq(ys, 1, m))


----------------------------------------------------------------------------
(* Specification of the three helpers called on their own: one call of     *)
(* detectOrder, buildHistogram or calculateCorrelation is drawn with its   *)
(* arguments, and the one step is the call.                                *)

MaxOrderLen == 4

MaxHistLen == 3

MaxNumber == 5

MaxBins == 8

MaxCorrLen == 3

MaxCorrNumber == 2

(* The numbers 1 and 2 and the texts "10", "9" and "a". *)
OrderValues == {Num(10), Num(20), Text(<<"1", "0">>), Text(<<"9">>), Text(<<"a">>)}

(* Counts of tenths from -0.2 up. *)
HistNumbers == (0 - 2)..MaxNumber

CorrNumbers == 0..MaxCorrNumber

OrderCalls == {[fn |-> "detectOrder", values |-> v] : v \in SeqsUpTo(OrderValues, MaxOrderLen)}

HistogramCalls ==
  {[fn |-> "buildHistogram", values |-> v, bins |-> b] :
     v \in SeqsUpTo(HistNumbers, MaxHistLen), b \in 1..MaxBins}

CorrelationCalls ==
  {[fn |-> "calculateCorrelation", xValues |-> x, yValues |-> y] :
     x \in SeqsUpTo(CorrNumbers, MaxCorrLen), y \in SeqsUpTo(CorrNumbers, MaxCorrLen)}

InitCalls ==
  /\ call \in OrderCalls \cup HistogramCalls \cup CorrelationCalls
  /\ ret = Pending
  /\ rows = <<>>
  /\ outcome = Pending
  /\ dateEngine = <<>>
  /\ Mounted

CallDetectOrder ==
  /\ ret = Pending
  /\ call.fn = "detectOrder"
  /\ ret' = Return(detectOrder(call.values))
  /\ UNCHANGED <<rows, outcome, dateEngine, call, page>>

CallBuildHistogram ==
  /\ ret = Pending
  /\ call.fn = "buildHistogram"
  /\ ret' = Return(buildHistogram(call.values, call.bins))
  /\ UNCHANGED <<rows, outcome, dateEngine, call, page>>

CallCalculateCorrelation ==
  /\ ret = Pending
  /\ call.fn = "calculateCorrelation"
  /\ ret' = Return(calculateCorrelation(call.xValues, call.yValues))
  /\ UNCHANGED <<rows, outcome, dateEngine, call, page>>

NextCalls == CallDetectOrder \/ CallBuildHistogram \/ CallCalculateCorrelation

SpecCalls == InitCalls /\ [][NextCalls]_vars

----------------------------------------------------------------------------
(* Properties of the helpers *)

Done(fn) == call.fn = fn /\ ret # Pending

(* a >= b and a <= b as JavaScript evaluates them: false when the pair is  *)
(* not comparable (a number against a text that is no number).             *)
Comparable(a, b) ==
  (a.t = "text" /\ b.t = "text") \/ (ToNumeric(a).k # "nan" /\ ToNumeric(b).k # "nan")

JsGeq(a, b) == Comparable(a, b) /\ ~JsLess(a, b)

JsLeq(a, b) == Comparable(a, b) /\ ~JsLess(b, a)

NonDecreasing(values) ==
  Len(values) >= 2 /\ \A i \in 2..Len(values) : JsGeq(values[i], values[i - 1])

NonIncreasing(values) ==
  Len(values) >= 2 /\ \A i \in 2..Len(values) : JsLeq(values[i], values[i - 1])

SameType(values) == \A i, j \in 1..Len(values) : values[i].t = values[j].t

(* C5 as claimed: detectOrder returns ascendente iff the sequence has at   *)
(* least 2 elements and every element is >= its predecessor, descendente   *)
(* iff it has at least 2, is not ascending and every element is <= its     *)
(* predecessor, and sin orden otherwise.                                   *)
C5_OrderByComparison ==
  Done("detectOrder") =>
    LET values == call.values IN
    /\ ret.value = Ascendente <=> NonDecreasing(values)
    /\ ret.value = Descendente <=> (~NonDecreasing(values) /\ NonIncreasing(values))
    /\ ret.value = SinOrden <=> (~NonDecreasing(values) /\ ~NonIncreasing(values))

(* The same rule restricted to sequences of one type (all numbers or all   *)
(* texts), where every pair is comparable.                                 *)
DetectOrderSameType ==
  (Done("detectOrder") /\ SameType(call.values)) =>
    LET values == call.values IN
    /\ ret.value = Ascendente <=> NonDecreasing(values)
    /\ ret.value = Descendente <=> (~NonDecreasing(values) /\ NonIncreasing(values))
    /\ ret.value = SinOrden <=> (~NonDecreasing(values) /\ ~NonIncreasing(values))

IsConstant(values) == \A i, j \in 1..Len(values) : values[i] = values[j]

ClampedBucket(v, min, max, bins) ==
  LET raw == ((v - min) * bins) \div (max - min)
  IN IF raw < 0 THEN 0 ELSE IF raw > bins - 1 THEN bins - 1 ELSE raw

(* C8: for values with min < max, buildHistogram returns exactly bins      *)
(* buckets whose counts sum to the number of values; bucket k counts the   *)
(* values whose clamped index is k, so every maximum is in the last one.   *)
C8_HistogramBuckets ==
  (Done("buildHistogram") /\ Len(call.values) > 0
     /\ MinOf(call.values) < MaxOf(call.values)) =>
    LET values == call.values
        bins == call.bins
        min == MinOf(values)
        max == MaxOf(values)
    IN /\ Len(ret.value) = bins
       /\ Sum([k \in 1..Len(ret.value) |-> ret.value[k].count]) = Len(values)
       /\ \A k \in 1..bins :
            ret.value[k].count =
              Cardinality({i \in 1..Len(values) : ClampedBucket(values[i], min, max, bins) = k - 1})
       /\ ret.value[bins].count >= Cardinality({i \in 1..Len(values) : values[i] = max})

(* Eight buckets over three values, two of them the maximum: both land in  *)
(* the last bucket, whose raw index would be 8.                            *)
C8_Witness ==
  /\ Done("buildHistogram")
  /\ call.bins = DefaultBins
  /\ call.values = <<5, 0, 5>>
  /\ Len(ret.value) = 8
  /\ ret.value[8].count = 2
  /\ ret.value[1].count = 1

----------------------------------------------------------------------------
(* Specification of analyzeData for date detection: small datasets over    *)
(* two keys with nulls, numbers, ISO dates and an engine-parsed text, and  *)
(* one-column datasets long enough to pass the 15-value sample, with       *)
(* enough dates to pass the threshold of 5.                                *)

MaxDateRows == 16

IsoText == Text(<<"2", "0", "2", "0", "-", "0", "1">>)

DateCells == {NullCell, Num(0), IsoText, Text(<<"1", ",", "5">>)}

ShortDateDatasets == SeqsUpTo(RowsOver(Keys, DateCells), MaxRows)

MaxDates == 6

(* One column d of ISO dates and words, at most MaxDates of them dates. *)
LongDateDatasets ==
  {ds \in SeqsUpTo({<<Entry("d", IsoText)>>, <<Entry("d", Text(<<"a">>))>>}, MaxDateRows) :
     Cardinality({i \in 1..Len(ds) : ds[i][1].value = IsoText}) <= MaxDates}

InitDate ==
  /\ \/ rows \in ShortDateDatasets /\ dateEngine \in EnginesFor(DateCells)
     \/ rows \in LongDateDatasets /\ dateEngine = <<>>
  /\ outcome = Pending
  /\ call = NoCall
  /\ ret = NoCall
  /\ Mounted

SpecDate == InitDate /\ [][Next]_vars

(* The first (up to) 15 non-null raw values of a column. *)
DateSampleOf(rs, column) ==
  LET nonNull == SelectSeq(RawValues(rs, column), LAMBDA value : ~isNullValue(value))
  IN SubSeq(nonNull, 1, Min(DateSample, Len(nonNull)))

DateMatchesIn(sample) == Cardinality({i \in 1..Len(sample) : parseDateValue(sample[i]).ok})

EnoughDateMatches(rs, column) ==
  LET sample == DateSampleOf(rs, column)
  IN DateMatchesIn(sample) >= Min(DateMatchesNeeded, Len(sample))

InDiscoveryOrder(names) ==
  \A i, j \in 1..Len(names) : i < j =>
    /\ names[i] # names[j]
    /\ PositionIn(StatsNames, names[i]) < PositionIn(StatsNames, names[j])

(* C9 as claimed: a column is in dateColumns iff, among its first 15       *)
(* non-null raw values, at least min(5, number sampled) parse as a date,   *)
(* a column with no non-null value included; dateColumns is in discovery   *)
(* order.                                                                  *)
C9_DateColumnsAsClaimed ==
  Returned =>
    /\ \A column \in Range(StatsNames) :
         column \in Range(Result.dateColumns) <=> EnoughDateMatches(rows, column)
    /\ InDiscoveryOrder(Result.dateColumns)

(* C9 amended: a column is in dateColumns iff it has at least one non-null *)
(* raw value and, among its first 15 non-null raw values, at least         *)
(* min(5, number sampled) parse as a date; dateColumns is in discovery     *)
(* order.                                                                  *)
C9_DateColumns ==
  Returned =>
    /\ Range(Result.dateColumns) \subseteq Range(StatsNames)
    /\ \A column \in Range(StatsNames) :
         column \in Range(Result.dateColumns) <=>
           (DateSampleOf(rows, column) # <<>> /\ EnoughDateMatches(rows, column))
    /\ InDiscoveryOrder(Result.dateColumns)

(* Sixteen non-null values of which the first fifteen hold exactly five    *)
(* dates: the column is a date column on the strength of the sample.       *)
C9_Witness ==
  /\ Returned
  /\ Len(rows) = 16
  /\ Result.dateColumns = <<"d">>
  /\ DateMatchesIn(DateSampleOf(rows, "d")) = 5
  /\ ~parseDateValue(Get(rows[16], "d")).ok

(* The rows that give a point of the series: the date column's value       *)
(* parses as a date and the numeric column's value coerces to a number.    *)
SeriesRows(rs, dateColumn, numericColumn) ==
  {r \in 1..Len(rs) : /\ parseDateValue(Get(rs[r], dateColumn)).ok
                      /\ toNumber(Get(rs[r], numericColumn)).ok}

(* The parsed date of a row. *)
DateOfRow(rs, r, dateColumn) == parseDateValue(Get(rs[r], dateColumn))

(* One timestamp is earlier than another: an earlier day, or the same day  *)
(* and fewer milliseconds into it.                                         *)
Earlier(d, e) == d.day < e.day \/ (d.day = e.day /\ d.ms < e.ms)

(* C13: the time series is produced iff dateColumns and numericColumns are *)
(* both non-empty, from the first entry of each; it has exactly one point  *)
(* for each row whose date value parses and whose numeric value coerces,   *)
(* and the points are in non-decreasing order of parsed timestamp, points  *)
(* of equal timestamp in row order.                                        *)
C13_TimeSeries ==
  Returned =>
    LET series == timeSeriesData(Result)
    IN IF Result.dateColumns = <<>> \/ Result.numericColumns = <<>>
       THEN series = NullCell
       ELSE LET dateColumn == Result.dateColumns[1]
                numericColumn == Result.numericColumns[1]
                kept == SeriesRows(rows, dateColumn, numericColumn)
                Before(q, r) ==
                  \/ Earlier(DateOfRow(rows, q, dateColumn), DateOfRow(rows, r, dateColumn))
                  \/ /\ DateOfRow(rows, q, dateColumn) = DateOfRow(rows, r, dateColumn)
                     /\ q < r
                Place(r) == 1 + Cardinality({q \in kept : Before(q, r)})
            IN /\ series # NullCell
               /\ Len(series) = Cardinality(kept)
               /\ \A r \in kept :
                    series[Place(r)] =
                      [fecha |-> toLocaleDateString(parseDateValue(Get(rows[r], dateColumn))),
                       valor |-> toNumber(Get(rows[r], numericColumn)).v]

(* Column a holds a date of 2020 above the number 0 (the epoch) and column *)
(* b two numbers: both rows give a point and the sort exchanges them.      *)
C13_Witness ==
  /\ Returned
  /\ Len(rows) = 2
  /\ Result.dateColumns = <<"a">>
  /\ Result.numericColumns = <<"b">>
  /\ SeriesRows(rows, "a", "b") = {1, 2}
  /\ Earlier(DateOfRow(rows, 2, "a"), DateOfRow(rows, 1, "a"))
  /\ timeSeriesData(Result) = <<[fecha |-> 0, valor |-> 15], [fecha |-> 18262, valor |-> 0]>>

----------------------------------------------------------------------------
(* Specification of analyzeData for the scatter pairs: datasets of rows    *)
(* that all hold the four keys a, b, c, d in that order, as a parsed file  *)
(* gives them, each cell null or a number (one of two numbers in columns   *)
(* a and b, so that the order of the points shows).                        *)

MaxScatterRows == 2

ScatterKeys == <<"a", "b", "c", "d">>

(* null and the number 1, and in columns a and b the number 2 as well. *)
ScatterCells(key) ==
  IF key \in {"a", "b"} THEN {NullCell, Num(10), Num(20)} ELSE {NullCell, Num(10)}

ScatterRows ==
  {[i \in 1..Len(ScatterKeys) |-> Entry(ScatterKeys[i], cells[i])] :
     cells \in {c \in [1..Len(ScatterKeys) -> ScatterCells("a")] :
                 \A i \in 1..Len(ScatterKeys) : c[i] \in ScatterCells(ScatterKeys[i])}}

InitScatter ==
  /\ rows \in SeqsUpTo(ScatterRows, MaxScatterRows)
  /\ dateEngine = <<>>
  /\ outcome = Pending
  /\ call = NoCall
  /\ ret = NoCall
  /\ Mounted

SpecScatter == InitScatter /\ [][Next]_vars

(* The rows in which both columns coerce to numbers. *)
PointRows(rs, xColumn, yColumn) ==
  {r \in 1..Len(rs) : toNumber(Get(rs[r], xColumn)).ok /\ toNumber(Get(rs[r], yColumn)).ok}

(* The pairs (i, j), i < j, of numeric columns with at least one point. *)
PairsWithPoints(rs, columns) ==
  {p \in (1..Len(columns)) \X (1..Len(columns)) :
     p[1] < p[2] /\ PointRows(rs, columns[p[1]], columns[p[2]]) # {}}

(* The enumeration order: i ascending, then j ascending. *)
PairPrecedes(p, q) == p[1] < q[1] \/ (p[1] = q[1] /\ p[2] < q[2])

(* C14: scatterPairs returns at most 4 pairs; they are the first (up to 4) *)
(* pairs with at least one point in the order i ascending, then j          *)
(* ascending, i < j, none skipped; each returned pair has x before y in    *)
(* numericColumns, at least one point, and for points exactly the rows     *)
(* where both columns coerce to numbers, in row order.                     *)
C14_ScatterPairs ==
  Returned =>
    LET pairs == scatterPairs(Result)
        columns == Result.numericColumns
        withPoints == PairsWithPoints(rows, columns)
        Place(p) == 1 + Cardinality({q \in withPoints : PairPrecedes(q, p)})
    IN /\ Len(pairs) <= 4
       /\ Len(pairs) = Min(4, Cardinality(withPoints))
       /\ \A p \in withPoints :
            Place(p) <= 4 =>
              LET pair == pairs[Place(p)]
                  pointRows == PointRows(rows, columns[p[1]], columns[p[2]])
              IN /\ pair.x = columns[p[1]]
                 /\ pair.y = columns[p[2]]
                 /\ Len(pair.points) = Cardinality(pointRows)
                 /\ Len(pair.points) > 0
                 /\ \A r \in pointRows :
                      pair.points[1 + Cardinality({q \in pointRows : q < r})] =
                        [x |-> toNumber(Get(rows[r], pair.x)).v,
                         y |-> toNumber(Get(rows[r], pair.y)).v]

(* Four numeric columns where a and b share no row: the pair (a, b) has no *)
(* point and is passed over, the next four pairs are returned, and the     *)
(* pair (c, d), which has points, is left out by the limit.                *)
C14_Witness ==
  /\ Returned
  /\ Result.numericColumns = <<"a", "b", "c", "d">>
  /\ PointRows(rows, "a", "b") = {}
  /\ PointRows(rows, "c", "d") = {1, 2}
  /\ Cardinality(PairsWithPoints(rows, Result.numericColumns)) = 5
  /\ Len(scatterPairs(Result)) = 4
  /\ scatterPairs(Result)[1].x = "a"
  /\ scatterPairs(Result)[1].y = "c"
  /\ scatterPairs(Result)[4].x = "b"
  /\ scatterPairs(Result)[4].y = "d"
  /\ scatterPairs(Result)[4].points = <<[x |-> 20, y |-> 10]>>

----------------------------------------------------------------------------
(* Specification of the page: the user selects or drops a file, presses    *)
(* "Analizar datos" or "Reiniciar análisis", and each handleFile call that *)
(* reached parseFile resumes later, in any order.  A handler runs to its   *)
(* end (or to its await) in one step; the state updates of one step are    *)
(* applied together.  isDragging and expandedColumns are left out: no      *)
(* handler below reads them.                                               *)

MaxCalls == 3

UpperCase == <<"A", "B", "C", "D", "E", "F", "G", "H", "I", "J", "K", "L", "M",
               "N", "O", "P", "Q", "R", "S", "T", "U", "V", "W", "X", "Y", "Z">>

LowerCase == <<"a", "b", "c", "d", "e", "f", "g", "h", "i", "j", "k", "l", "m",
               "n", "o", "p", "q", "r", "s", "t", "u", "v", "w", "x", "y", "z">>

(* toLowerCase() *)
toLowerCase(s) ==
  [i \in 1..Len(s) |->
     IF \E k \in 1..Len(UpperCase) : UpperCase[k] = s[i]
     THEN LowerCase[CHOOSE k \in 1..Len(UpperCase) : UpperCase[k] = s[i]]
     ELSE s[i]]

(* name.split(".").pop(): what follows the last dot, or the whole name. *)
LastPiece(name) ==
  LET dots == {i \in 1..Len(name) : name[i] = "."}
  IN IF dots = {} THEN name
     ELSE SubSeq(name, (CHOOSE i \in dots : \A k \in dots : k <= i) + 1, Len(name))

UnsupportedMessage == "Formato de archivo no soportado. Usa CSV o Excel."

CsvErrorMessage == "El archivo CSV contiene errores de formato."

NoFileMessage == "Primero selecciona un archivo para analizar."

(* extension && ["csv", "xlsx", "xls"].includes(extension) *)
IsSupported(name) ==
  LET extension == toLowerCase(LastPiece(name))
  IN /\ extension # <<>>
     /\ extension \in {<<"c", "s", "v">>, <<"x", "l", "s", "x">>, <<"x", "l", "s">>}

(* A File: its name and what parseFile will make of its content, the rows  *)
(* or an error.                                                            *)
File(name, parsed) == [name |-> name, parsed |-> parsed]

(* a.csv of one row, b.XLSX of two, e.csv without data rows, x.csv with    *)
(* format errors, and n.txt.                                               *)
Files ==
  {File(<<"a", ".", "c", "s", "v">>, Return(<<<<Entry("a", Num(10))>>>>)),
   File(<<"b", ".", "X", "L", "S", "X">>,
        Return(<<<<Entry("a", Num(20))>>, <<Entry("a", NullCell)>>>>)),
   File(<<"e", ".", "c", "s", "v">>, Return(<<>>)),
   File(<<"x", ".", "c", "s", "v">>, Throw(CsvErrorMessage)),
   File(<<"n", ".", "t", "x", "t">>, Return(<<>>))}

(* What the rest of handleFile's try block comes to once parseFile has     *)
(* settled: the error thrown, or the result of analyzeData.                *)
Processed(file) ==
  IF file.parsed.kind = "throw" THEN file.parsed ELSE analyzeData(file.parsed.value)

Step(handler, ended) == [handler |-> handler, call |-> ended]

(* Mutant of Caught: the analysis on display is cleared with the error. *)
CaughtClearsAnalysis(message) ==
  /\ errorMessage' = Message(message)
  /\ isLoading' = FALSE
  /\ analysis' = NullCell
  /\ shown' = NoShown

(* catch: setErrorMessage(error.message); finally: setIsLoading(false) *)
Caught(message) ==
  /\ errorMessage' = Message(message)
  /\ isLoading' = FALSE
  /\ UNCHANGED <<analysis, shown>>

(* handleFile(file) as far as it runs when called: to the throw for an     *)
(* unsupported extension, which is caught at once, or to await parseFile.  *)
handleFile(file, handler) ==
  IF ~IsSupported(file.name)
  THEN /\ Caught(UnsupportedMessage)
       /\ step' = Step(handler, "rejected")
       /\ UNCHANGED <<fileName, calls, inFlight>>
  ELSE /\ Len(calls) < MaxCalls
       /\ errorMessage' = NullCell
       /\ isLoading' = TRUE
       /\ fileName' = Text(file.name)
       /\ calls' = Append(calls, file)
       /\ inFlight' = inFlight \cup {Len(calls) + 1}
       /\ step' = Step(handler, "awaiting")
       /\ UNCHANGED <<analysis, shown>>

onFileChange ==
  \E file \in Files :
    /\ selectedFile' = file
    /\ handleFile(file, "onFileChange")
    /\ UNCHANGED <<rows, outcome, dateEngine, call, ret, resetMark>>

onDrop ==
  \E file \in Files :
    /\ selectedFile' = file
    /\ handleFile(file, "onDrop")
    /\ UNCHANGED <<rows, outcome, dateEngine, call, ret, resetMark>>

(* The onClick of "Analizar datos". *)
AnalizarDatos ==
  /\ IF selectedFile # NullCell
     THEN handleFile(selectedFile, "Analizar datos")
     ELSE /\ errorMessage' = Message(NoFileMessage)
          /\ step' = Step("Analizar datos", "none")
          /\ UNCHANGED <<fileName, analysis, isLoading, calls, inFlight, shown>>
  /\ UNCHANGED <<rows, outcome, dateEngine, call, ret, selectedFile, resetMark>>

resetState ==
  /\ fileName' = NullCell
  /\ analysis' = NullCell
  /\ errorMessage' = NullCell
  /\ selectedFile' = NullCell
  /\ resetMark' = Len(calls)
  /\ shown' = NoShown
  /\ step' = Step("resetState", "none")
  /\ UNCHANGED <<rows, outcome, dateEngine, call, ret, isLoading, calls, inFlight>>

(* The call numbered id resumes after await parseFile and runs to its end. *)
Resume(id) ==
  /\ id \in inFlight
  /\ inFlight' = inFlight \ {id}
  /\ LET processed == Processed(calls[id])
     IN IF processed.kind = "throw"
        THEN /\ Caught(processed.error)
             /\ step' = Step("handleFile", "failed")
        ELSE /\ analysis' = processed.value
             /\ isLoading' = FALSE
             /\ shown' = [id |-> id,
                          superseded |-> id < Len(calls),
                          afterReset |-> id <= resetMark]
             /\ step' = Step("handleFile", "returned")
             /\ UNCHANGED errorMessage
  /\ UNCHANGED <<rows, outcome, dateEngine, call, ret, fileName, selectedFile, calls, resetMark>>

ResumeSome == \E id \in inFlight : Resume(id)

InitPage ==
  /\ rows = <<>>
  /\ dateEngine = <<>>
  /\ outcome = Pending
  /\ call = NoCall
  /\ ret = NoCall
  /\ Mounted

NextPage == onFileChange \/ onDrop \/ AnalizarDatos \/ resetState \/ ResumeSome

SpecPage == InitPage /\ [][NextPage]_vars

----------------------------------------------------------------------------
(* Properties of the page *)

(* C15: a handleFile call that fails (unsupported extension, decoder       *)
(* error, or analyzeData's empty-dataset error) ends with errorMessage a   *)
(* non-null message and isLoading false, and leaves analysis as it was,    *)
(* neither cleared nor replaced; a rejection for an unsupported extension  *)
(* leaves fileName as it was too.                                          *)
C15_FailureKeepsAnalysis ==
  [][step'.call \in {"rejected", "failed"} =>
       /\ errorMessage' # NullCell
       /\ errorMessage'.text \in {UnsupportedMessage, CsvErrorMessage, EmptyFileMessage}
       /\ isLoading' = FALSE
       /\ analysis' = analysis
       /\ step'.call = "rejected" => fileName' = fileName]_vars

(* e.csv, which has no data rows, has just failed in analyzeData while the *)
(* analysis of an earlier file stays on display beside the error.          *)
C15_Witness ==
  /\ step = Step("handleFile", "failed")
  /\ errorMessage = Message(EmptyFileMessage)
  /\ fileName = Text(<<"e", ".", "c", "s", "v">>)
  /\ analysis # NullCell
  /\ analysis.totalRows = 1
  /\ ~isLoading
  /\ inFlight = {}

(* C16: once no handleFile call is in flight, the analysis on display is   *)
(* null or the result of the most recently started call: it is never a     *)
(* result written after a resetState that followed the start of its call,  *)
(* and never the result of a call that a later-started call had already    *)
(* superseded when it was written (unless the latest call gives the very   *)
(* same result).                                                           *)
C16_NoStaleResult ==
  (inFlight = {} /\ analysis # NullCell) =>
    /\ ~shown.afterReset
    /\ shown.superseded =>
         LET latest == Processed(calls[Len(calls)])
         IN latest.kind = "return" /\ analysis = latest.value

(* C17: isLoading is true if and only if at least one handleFile call has  *)
(* started and not yet finished.                                           *)
C17_LoadingIffInFlight == isLoading <=> inFlight # {}

====
